---- MODULE Spec2Model ----
(***************************************************************************)
(* RoadMapGenerator: the model-fallback request flow of POST /api/roadmap, *)
(* the JSON extraction applied to the model's answer, and the flat-file    *)
(* store of saved roadmaps.                                                *)
(*                                                                         *)
(* The specifications of the module:                                       *)
(*   Spec          the generation handler (one request, its fallback loop) *)
(*   SpecExtract   the answer built from the content of an OK response     *)
(*   SpecStore     the store handlers over data/roadmaps.json, in series   *)
(*   SpecOverlap   the store handlers serving two requests at once         *)
(*   SpecHandlers  the generation and the store handlers                   *)
(*   SpecClient    the browser client's generation flow                    *)
(*   SpecPrompt    the number of weeks computed from the timeframe         *)
(*   SpecThrottle  the spacing of upstream requests (throttleRequests)     *)
(*   SpecAnyFile   the store handlers over a file that may be unreadable   *)
(*   SpecModels    the free models answered by GET /api/models             *)
(*   SpecLive, SpecClientLive   Spec and SpecClient with weak fairness     *)
(* Each leaves the variables of the other parts parked.                    *)
(***************************************************************************)
EXTENDS Integers, Sequences, FiniteSets, TLC

VARIABLES
    \* ---- generation handler
    variant,        \* which build serves the request: "index", "server", "api"
    pc,             \* position of the handler
    req,            \* the request: method, topic, model
    available,      \* ids of the provider's model list (api build)
    preferred,      \* the candidate list
    ci,             \* index of the current candidate in preferred (1-based)
    attempt,        \* the inner loop's counter (0-based, as in the code)
    lastErrorText,  \* body of the last failed upstream response
    res,            \* the response sent, or NoResponse
    waited,         \* history: milliseconds of backoff waited since the latest call
    calls,          \* history: the upstream chat calls made, in order
    last,           \* history: outcome of the latest upstream chat call
    abandoned,      \* history: candidates that answered 429 or 404
    \* ---- extraction
    content,        \* content string of an OK upstream response
    body,           \* the 200 body answered for it
    epc,            \* "ready" or "done"
    \* ---- store
    build,          \* which build serves the store: "server" or "api"
    file,           \* data/roadmaps.json
    now,            \* Date.now()
    spc,            \* position of each store request
    sreq,           \* each store request
    roadmaps,       \* the array each request loaded
    out,            \* the array each request hands to saveRoadmaps
    sres,           \* each store request's response
    \* ---- browser client
    isGenerating,   \* RoadmapGenerator.isGenerating
    currentRoadmap, \* RoadmapGenerator.currentRoadmap
    abortController,\* the generation whose AbortController the client holds, 0 for none
    aborted,        \* generations whose signal was aborted
    output,         \* what the output element shows: "empty", "error", "roadmap"
    gens,           \* position of each generateRoadmap activation
    saves,          \* history: automatic POST /api/roadmap/save requests issued
    alone,          \* history: the activation overlapped no other activation
    \* ---- weeks of the prompt
    timeframeWeeks, \* req.body.timeframeWeeks
    timeframeMonths,\* req.body.timeframeMonths
    weeks,          \* the number placed in the prompt, in tenths
    wpc,            \* "ready" or "done"
    \* ---- throttle of the Express server
    clock,          \* Date.now() of the server, in milliseconds
    lastRequestAt,  \* the module variable lastRequestAt
    tpc,            \* position of each request at the throttle
    wakeAt,         \* when each waiting request's timer is due
    passes,         \* history: the times at which requests passed the throttle
    \* ---- GET /api/models
    provided,       \* data.data of the provider's answer
    freeModels,     \* the models answered
    mpc             \* "ready" or "done"

genVars == <<variant, pc, req, available, preferred, ci, attempt, lastErrorText, res,
             waited, calls, last, abandoned>>
extractVars == <<content, body, epc>>
storeVars == <<build, file, now, spc, sreq, roadmaps, out, sres>>
clientVars == <<isGenerating, currentRoadmap, abortController, aborted, output, gens,
                saves, alone>>
promptVars == <<timeframeWeeks, timeframeMonths, weeks, wpc>>
throttleVars == <<clock, lastRequestAt, tpc, wakeAt, passes>>
modelsVars == <<provided, freeModels, mpc>>
vars == <<genVars, extractVars, storeVars, clientVars, promptVars, throttleVars, modelsVars>>

Min(a, b) == IF a < b THEN a ELSE b

(***************************************************************************)
(* Strings are sequences of lexemes.  FENCE is three backticks, JSONWORD   *)
(* the letters json, WS one whitespace character, KEY a quoted key with    *)
(* its colon, ZERO the digit 0.                                            *)
(***************************************************************************)
FENCE == "<fence>"
JSONWORD == "json"
WS == " "
LBRACE == "{"
RBRACE == "}"
KEY == "<key>:"
ZERO == "0"
Lexemes == {FENCE, JSONWORD, WS, LBRACE, RBRACE, KEY, ZERO}

MaxLen == 5
Contents == UNION {[1..n -> Lexemes] : n \in 0..MaxLen}

At(s, i) == IF i >= 1 /\ i <= Len(s) THEN s[i] ELSE "<end>"

Slice(s, from, to) == IF to < from THEN <<>> ELSE SubSeq(s, from, to)

\* index of the first lexeme at or after i that is not whitespace
RECURSIVE SkipWs(_, _)
SkipWs(s, i) == IF At(s, i) = WS THEN SkipWs(s, i + 1) ELSE i

\* index after the JSON value that starts (after whitespace) at i, 0 if none
RECURSIVE ValueEnd(_, _)
ValueEnd(s, i) ==
    LET j == SkipWs(s, i) IN
    IF At(s, j) = ZERO THEN j + 1
    ELSE IF At(s, j) = LBRACE THEN
        LET k == SkipWs(s, j + 1) IN
        IF At(s, k) = RBRACE THEN k + 1
        ELSE IF At(s, k) = KEY THEN
            LET v == ValueEnd(s, k + 1) IN
            IF v = 0 THEN 0
            ELSE IF At(s, SkipWs(s, v)) = RBRACE THEN SkipWs(s, v) + 1 ELSE 0
        ELSE 0
    ELSE 0

StripWs(s) == SelectSeq(s, LAMBDA x : x # WS)

ParseFailed == [ok |-> FALSE, val |-> <<>>]

\* JSON.parse: the value (its canonical text) or a SyntaxError
JSONparse(s) ==
    LET e == ValueEnd(s, 1) IN
    IF e # 0 /\ SkipWs(s, e) = Len(s) + 1
    THEN [ok |-> TRUE, val |-> StripWs(s)]
    ELSE ParseFailed

Null == <<>>

TruthyUnlessNull(v) == v # Null

\* if (extracted): null and the falsy values (0 stands for them) fail the test
Truthy(v) == v # Null /\ v # <<ZERO>>

\* indexOf / lastIndexOf of a lexeme, 0 when absent
IndexOfFrom(s, x, from) ==
    LET hits == {i \in from..Len(s) : s[i] = x} IN
    IF hits = {} THEN 0 ELSE CHOOSE i \in hits : \A j \in hits : i <= j

LastIndexOf(s, x) ==
    LET hits == {i \in 1..Len(s) : s[i] = x} IN
    IF hits = {} THEN 0 ELSE CHOOSE i \in hits : \A j \in hits : i >= j

NoMatch == [found |-> FALSE, group |-> <<>>]

\* text.match of the fence that is followed by json: fence json \s* (group, lazy) fence
MatchJsonFence(s) ==
    LET starts == {i \in 1..Len(s) : s[i] = FENCE /\ At(s, i + 1) = JSONWORD
                                      /\ IndexOfFrom(s, FENCE, i + 2) # 0} IN
    IF starts = {} THEN NoMatch
    ELSE LET p == CHOOSE i \in starts : \A j \in starts : i <= j
             b == SkipWs(s, p + 2)
             q == IndexOfFrom(s, FENCE, b)
         IN [found |-> TRUE, group |-> Slice(s, b, q - 1)]

\* text.match of any fence: fence \s* (group, lazy) fence
MatchAnyFence(s) ==
    LET starts == {i \in 1..Len(s) : s[i] = FENCE /\ IndexOfFrom(s, FENCE, i + 1) # 0} IN
    IF starts = {} THEN NoMatch
    ELSE LET p == CHOOSE i \in starts : \A j \in starts : i <= j
             b == SkipWs(s, p + 1)
             q == IndexOfFrom(s, FENCE, b)
         IN [found |-> TRUE, group |-> Slice(s, b, q - 1)]

fenceMatch(s) == IF MatchJsonFence(s).found THEN MatchJsonFence(s) ELSE MatchAnyFence(s)

\* text.slice(first, last + 1), or <<>> when the guard on first and last fails
BraceCandidate(s) ==
    LET first == IndexOfFrom(s, LBRACE, 1)
        lst == LastIndexOf(s, RBRACE)
    IN IF first # 0 /\ lst # 0 /\ lst > first THEN Slice(s, first, lst) ELSE <<>>

tryExtractJson(text) ==
    LET fm == fenceMatch(text)
        cand == BraceCandidate(text)
    IN IF fm.found /\ fm.group # <<>> /\ JSONparse(fm.group).ok
       THEN JSONparse(fm.group).val
       ELSE IF cand # <<>> /\ JSONparse(cand).ok
            THEN JSONparse(cand).val
            ELSE Null

JsonBody(v) == [kind |-> "json", val |-> v]
RawBody(c) == [kind |-> "raw", val |-> c]

\* the 200 answer of the handler for the content of an OK response
Body200(c) ==
    IF JSONparse(c).ok THEN JsonBody(JSONparse(c).val)
    ELSE IF Truthy(tryExtractJson(c)) THEN JsonBody(tryExtractJson(c))
    ELSE RawBody(c)

NoBody == [kind |-> "none", val |-> <<>>]

ExtractInit == content \in Contents /\ body = NoBody /\ epc = "ready"
ExtractParked == content = <<>> /\ body = NoBody /\ epc = "off"

\* the handler answers 200 for the content
Answer200 ==
    /\ epc = "ready"
    /\ body' = Body200(content)
    /\ epc' = "done"
    /\ UNCHANGED content

(***************************************************************************)
(* The generation handler.  Three builds ship it: server/index.js          *)
(* ("index"), the server with the store ("server") and the serverless      *)
(* function api/roadmap.js ("api"), which filters the candidates by the     *)
(* provider's model list.  The per-instance throttle of the two Express    *)
(* builds does not wait for the first request of an instance (lastRequestAt *)
(* starts at 0) and is not part of this specification.                     *)
(***************************************************************************)
Variants == {"index", "server", "api"}

MAX_RETRIES == 3
RETRY_DELAYS == <<1000, 3000, 5000>>

R1 == "deepseek/deepseek-r1:free"
GEMINI == "google/gemini-2.5-flash-preview"
CHAT_V3 == "deepseek/deepseek-chat-v3-0324:free"
MAVERICK == "meta-llama/llama-4-maverick:free"
QWEN3 == "qwen/qwen3-235b-a22b:free"
CUSTOM == "custom/model"

MODELS(v) ==
    CASE v = "index" -> <<R1, GEMINI>>
      [] v = "server" -> <<CHAT_V3, MAVERICK, R1>>
      [] v = "api" -> <<CHAT_V3, MAVERICK, R1, QWEN3>>

\* the inputs of a request
Methods == {"POST", "GET"}
Topics == {"", "tla"}
RequestedModels == {"", CUSTOM, R1, GEMINI}
AvailableIds == {CHAT_V3, R1, QWEN3, CUSTOM}

\* what an upstream chat call can answer
FailStatuses == {429, 404, 500}
ErrBodies == {"", "rate limited", "provider down"}
GenContents == {<<>>, <<LBRACE, RBRACE>>, <<FENCE, ZERO, FENCE>>, <<JSONWORD, LBRACE, RBRACE>>}

Range(s) == {s[i] : i \in 1..Len(s)}

\* preferred.push(m) for every m of list that preferred does not include
RECURSIVE PushMissing(_, _)
PushMissing(acc, list) ==
    IF list = <<>> THEN acc
    ELSE PushMissing(IF Head(list) \in Range(acc) THEN acc ELSE Append(acc, Head(list)),
                     Tail(list))

PreferredRawNoDedup(model, models) == (IF model # "" THEN <<model>> ELSE <<>>) \o models

\* requested model first (if given), then MODELS order
PreferredRaw(model, models) == PushMissing(IF model # "" THEN <<model>> ELSE <<>>, models)

FilterAvailableAlways(raw, avail) ==
    LET kept == SelectSeq(raw, LAMBDA m : m \in avail)
    IN IF kept = <<>> THEN <<R1>> ELSE kept

\* the api build keeps the ids the provider lists, when it lists any
FilterAvailable(raw, avail) ==
    LET kept == SelectSeq(raw, LAMBDA m : avail = {} \/ m \in avail)
    IN IF kept = <<>> THEN <<R1>> ELSE kept

BuildPreferred(v, model, avail) ==
    IF v = "api" THEN FilterAvailable(PreferredRaw(model, MODELS(v)), avail)
    ELSE PreferredRaw(model, MODELS(v))

AttemptCapOneMore == Min(MAX_RETRIES, Len(RETRY_DELAYS)) + 1

AttemptCap == Min(MAX_RETRIES, Len(RETRY_DELAYS))

BackoffDelayPrevious(a) == RETRY_DELAYS[a]

\* RETRY_DELAYS[attempt], attempt counted from 0; past the end of the array the
\* delay is undefined and setTimeout fires at once
BackoffDelay(a) == IF a + 1 <= Len(RETRY_DELAYS) THEN RETRY_DELAYS[a + 1] ELSE 0

NoResponse == [status |-> 0, error |-> "", details |-> "", body |-> NoBody]
ErrorResponse(st, msg) == [status |-> st, error |-> msg, details |-> "", body |-> NoBody]

\* res.status(200).json(...) for the content of an OK response
OkResponse(c) == [status |-> 200, error |-> "", details |-> "", body |-> Body200(c)]

\* the 502 after the loop
UpstreamError(text) ==
    [status |-> 502, error |-> "Upstream error",
     details |-> IF text # "" THEN text ELSE "No candidate models succeeded", body |-> NoBody]

InternalError == ErrorResponse(500, "Internal server error")

AfterOkContinue == "call"

\* a return inside the loops leaves them
AfterOk == "done"

SetLastErrorTextOnce(old, text) == IF old = "" THEN text ELSE old

\* lastErrorText = text
SetLastErrorText(old, text) == text

AfterFailureOnly429(st, c, a, n) ==
    IF st # 429 /\ a + 1 < Min(MAX_RETRIES, Len(RETRY_DELAYS))
    THEN [pc |-> "wait", ci |-> c, attempt |-> a + 1]
    ELSE IF c < n THEN [pc |-> "call", ci |-> c + 1, attempt |-> 0]
         ELSE [pc |-> "done", ci |-> c, attempt |-> a]

AfterFailureNoRetry(st, c, a, n) ==
    IF c < n THEN [pc |-> "call", ci |-> c + 1, attempt |-> 0]
    ELSE [pc |-> "done", ci |-> c, attempt |-> a]

AfterFailureHangs(st, c, a, n) ==
    IF st # 429 /\ st # 404 /\ a + 1 < AttemptCap
    THEN [pc |-> "wait", ci |-> c, attempt |-> a + 1]
    ELSE IF c < n THEN [pc |-> "call", ci |-> c + 1, attempt |-> 0]
         ELSE [pc |-> "hang", ci |-> c, attempt |-> a]

\* where the loops stand after a non-OK response with status st to attempt a
\* on candidate c of n: break on 429/404, else the next attempt, else the next
\* candidate, else out of both loops
AfterFailure(st, c, a, n) ==
    IF st # 429 /\ st # 404 /\ a + 1 < AttemptCap
    THEN [pc |-> "wait", ci |-> c, attempt |-> a + 1]
    ELSE IF c < n THEN [pc |-> "call", ci |-> c + 1, attempt |-> 0]
         ELSE [pc |-> "done", ci |-> c, attempt |-> a]

NoCall == [kind |-> "none", model |-> "", attempt |-> 0, status |-> 0, text |-> "",
           content |-> <<>>]

GenInit ==
    /\ variant \in Variants
    /\ pc = "idle"
    /\ req = [method |-> "", topic |-> "", model |-> ""]
    /\ available = {}
    /\ preferred = <<>>
    /\ ci = 0
    /\ attempt = 0
    /\ lastErrorText = ""
    /\ res = NoResponse
    /\ waited = 0
    /\ calls = <<>>
    /\ last = NoCall
    /\ abandoned = {}

GenParked ==
    /\ variant = "off"
    /\ pc = "off"
    /\ req = [method |-> "", topic |-> "", model |-> ""]
    /\ available = {}
    /\ preferred = <<>>
    /\ ci = 0
    /\ attempt = 0
    /\ lastErrorText = ""
    /\ res = NoResponse
    /\ waited = 0
    /\ calls = <<>>
    /\ last = NoCall
    /\ abandoned = {}

RequestTopicFirst(method, topic, model) ==
    /\ pc = "idle"
    /\ variant # "api" => method = "POST"
    /\ req' = [method |-> method, topic |-> topic, model |-> model]
    /\ IF topic = ""
       THEN /\ res' = ErrorResponse(400, "Missing required field: topic")
            /\ pc' = "done"
            /\ UNCHANGED <<preferred, ci>>
       ELSE IF variant = "api" /\ method # "POST"
       THEN /\ res' = ErrorResponse(405, "Method not allowed")
            /\ pc' = "done"
            /\ UNCHANGED <<preferred, ci>>
       ELSE IF variant = "api"
       THEN /\ pc' = "models"
            /\ UNCHANGED <<res, preferred, ci>>
       ELSE /\ preferred' = BuildPreferred(variant, model, {})
            /\ ci' = 1
            /\ pc' = "call"
            /\ UNCHANGED res
    /\ UNCHANGED <<variant, available, attempt, lastErrorText, waited, calls, last, abandoned>>

\* a request arrives: the method and topic checks, then (Express builds) the
\* candidate list; the api build first asks the provider for its models
Request(method, topic, model) ==
    /\ pc = "idle"
    /\ variant # "api" => method = "POST"
    /\ req' = [method |-> method, topic |-> topic, model |-> model]
    /\ IF variant = "api" /\ method # "POST"
       THEN /\ res' = ErrorResponse(405, "Method not allowed")
            /\ pc' = "done"
            /\ UNCHANGED <<preferred, ci>>
       ELSE IF topic = ""
       THEN /\ res' = ErrorResponse(400, "Missing required field: topic")
            /\ pc' = "done"
            /\ UNCHANGED <<preferred, ci>>
       ELSE IF variant = "api"
       THEN /\ pc' = "models"
            /\ UNCHANGED <<res, preferred, ci>>
       ELSE /\ preferred' = BuildPreferred(variant, model, {})
            /\ ci' = 1
            /\ pc' = "call"
            /\ UNCHANGED res
    /\ UNCHANGED <<variant, available, attempt, lastErrorText, waited, calls, last, abandoned>>

\* api build: the provider's model list arrives (ids), or the fetch fails or
\* is not OK (ids stays empty); then the candidate list is built
FetchModels(ids) ==
    /\ pc = "models"
    /\ available' = ids
    /\ preferred' = BuildPreferred(variant, req.model, ids)
    /\ ci' = 1
    /\ pc' = "call"
    /\ UNCHANGED <<variant, req, attempt, lastErrorText, res, waited, calls, last, abandoned>>

\* if (attempt > 0) await wait(RETRY_DELAYS[attempt])
Wait ==
    /\ pc = "wait"
    /\ waited' = waited + BackoffDelay(attempt)
    /\ pc' = "call"
    /\ UNCHANGED <<variant, req, available, preferred, ci, attempt, lastErrorText, res,
                   calls, last, abandoned>>

Called(kind, st, text, c) ==
    /\ calls' = Append(calls, [model |-> preferred[ci], attempt |-> attempt, waited |-> waited])
    /\ last' = [kind |-> kind, model |-> preferred[ci], attempt |-> attempt, status |-> st,
                text |-> text, content |-> c]
    /\ waited' = 0

CallRejectsRetried ==
    /\ pc = "call"
    /\ Called("reject", 0, "", <<>>)
    /\ LET nxt == AfterFailure(0, ci, attempt, Len(preferred)) IN
         /\ pc' = nxt.pc
         /\ ci' = nxt.ci
         /\ attempt' = nxt.attempt
         /\ res' = IF nxt.pc = "done" THEN UpstreamError(lastErrorText) ELSE res
    /\ UNCHANGED <<variant, req, available, preferred, lastErrorText, abandoned>>

\* callOpenRouterChat rejects: the outer catch answers 500
CallRejects ==
    /\ pc = "call"
    /\ Called("reject", 0, "", <<>>)
    /\ res' = InternalError
    /\ pc' = "done"
    /\ UNCHANGED <<variant, req, available, preferred, ci, attempt, lastErrorText, abandoned>>

\* an OK response whose body holds content c
CallOk(c) ==
    /\ pc = "call"
    /\ Called("ok", 200, "", c)
    /\ res' = OkResponse(c)
    /\ pc' = AfterOk
    /\ UNCHANGED <<variant, req, available, preferred, ci, attempt, lastErrorText, abandoned>>

\* an OK response whose body response.json() cannot read
CallOkUnreadable ==
    /\ pc = "call"
    /\ Called("okUnreadable", 200, "", <<>>)
    /\ res' = InternalError
    /\ pc' = "done"
    /\ UNCHANGED <<variant, req, available, preferred, ci, attempt, lastErrorText, abandoned>>

\* a non-OK response with status st and body text
CallFails(st, text) ==
    /\ pc = "call"
    /\ Called("fail", st, text, <<>>)
    /\ lastErrorText' = SetLastErrorText(lastErrorText, text)
    /\ abandoned' = IF st \in {429, 404} THEN abandoned \cup {preferred[ci]} ELSE abandoned
    /\ LET nxt == AfterFailure(st, ci, attempt, Len(preferred)) IN
         /\ pc' = nxt.pc
         /\ ci' = nxt.ci
         /\ attempt' = nxt.attempt
         /\ res' = IF nxt.pc = "done" THEN UpstreamError(lastErrorText') ELSE res
    /\ UNCHANGED <<variant, req, available, preferred>>

\* a non-OK response whose body response.text() cannot read
CallFailsUnreadable(st) ==
    /\ pc = "call"
    /\ Called("failUnreadable", st, "", <<>>)
    /\ res' = InternalError
    /\ pc' = "done"
    /\ UNCHANGED <<variant, req, available, preferred, ci, attempt, lastErrorText, abandoned>>

(***************************************************************************)
(* Properties of the fallback loop.                                        *)
(***************************************************************************)
IsPrefix(a, b) == Len(a) <= Len(b) /\ SubSeq(b, 1, Len(a)) = a

\* the candidates called, in call order: one entry per run of calls to one model
CandidatesCalled ==
    LET starts == SelectSeq(calls, LAMBDA c : c.attempt = 0)
    IN [i \in 1..Len(starts) |-> starts[i].model]

CallsTo(m) == Cardinality({i \in 1..Len(calls) : calls[i].model = m})

\* the requested model first (when given), then MODELS in declared order, no id twice
PreferenceOrder ==
    IF req.model = "" THEN MODELS(variant)
    ELSE <<req.model>> \o SelectSeq(MODELS(variant), LAMBDA m : m # req.model)

\* the same order as the serverless build restricts it
RestrictedOrder ==
    IF variant = "api" /\ available # {}
    THEN LET kept == SelectSeq(PreferenceOrder, LAMBDA m : m \in available)
         IN IF kept = <<>> THEN <<R1>> ELSE kept
    ELSE PreferenceOrder

CallsFollow(order) ==
    /\ IsPrefix(CandidatesCalled, order)
    /\ \A i \in 1..Len(calls) :
         i > 1 /\ calls[i].attempt # 0 => calls[i].model = calls[i - 1].model
    /\ res.status = 502 => CandidatesCalled = order

\* C1 as stated: the candidates called are, in order, the requested model (when
\* given) and then the entries of MODELS in declared order, none twice, in every build
C1_CandidateOrder_Stated == variant \in Variants => CallsFollow(PreferenceOrder)

\* C1 amended: the candidates called follow that order, which the serverless build
\* restricts to the ids the provider lists when it lists any, and replaces by the
\* single id deepseek/deepseek-r1:free when the restriction leaves nothing
C1_CandidateOrder == variant \in Variants => CallsFollow(RestrictedOrder)

\* a requested model that is also in MODELS, every candidate tried, the requested one once
C1_Witness ==
    /\ variant = "server"
    /\ req.model = R1
    /\ res.status = 502
    /\ CandidatesCalled = <<R1, CHAT_V3, MAVERICK>>

\* C2: no candidate gets more than min(MAX_RETRIES, len(RETRY_DELAYS)) = 3 upstream
\* chat calls, and a request makes at most that many times the number of candidates
C2_AttemptCap ==
    LET cap == Min(MAX_RETRIES, Len(RETRY_DELAYS)) IN
    /\ cap = 3
    /\ \A i \in 1..Len(calls) : CallsTo(calls[i].model) <= cap
    /\ Len(calls) <= cap * Len(preferred)

\* every candidate of a three-candidate list called three times
C2_Witness ==
    /\ Len(preferred) = 3
    /\ Len(calls) = 9
    /\ \A i \in 1..3 : CallsTo(preferred[i]) = 3

\* C3: attempt 0 on every candidate follows no backoff wait, attempt k >= 1 follows
\* a wait of exactly RETRY_DELAYS[k] (3000 ms, then 5000 ms); RETRY_DELAYS[0] is
\* never waited
C3_BackoffDelays ==
    \A i \in 1..Len(calls) :
        LET c == calls[i] IN
        /\ c.attempt = 0 => c.waited = 0
        /\ c.attempt >= 1 => c.waited = RETRY_DELAYS[c.attempt + 1]
        /\ c.attempt = 1 => c.waited = 3000
        /\ c.attempt = 2 => c.waited = 5000
        /\ c.waited # RETRY_DELAYS[1]

\* a candidate reached after an abandoned one fails three times
C3_Witness ==
    /\ Len(calls) >= 4
    /\ calls[1].model \in abandoned
    /\ calls[2].attempt = 0
    /\ calls[3].attempt = 1
    /\ calls[4].attempt = 2
    /\ last.kind = "fail"
    /\ Len(calls) = 4

MadeCall == Len(calls') = Len(calls) + 1
NewCall == calls'[Len(calls')]
IndexIn(order, m) == CHOOSE i \in 1..Len(order) : order[i] = m

\* C4: after a 429 or 404 the next upstream call, if any, is the first attempt on
\* the next candidate, and no call is ever made again to a candidate that answered so
C4_AbortOn429Or404 ==
    [][MadeCall =>
         /\ NewCall.model \notin abandoned
         /\ (last.kind = "fail" /\ last.status \in {429, 404}) =>
               /\ NewCall.attempt = 0
               /\ IndexIn(preferred, last.model) < Len(preferred)
               /\ NewCall.model = preferred[IndexIn(preferred, last.model) + 1]]_vars

\* a 404 on the second attempt of a candidate, then a call to the next candidate
C4_Witness ==
    /\ Len(calls) = 3
    /\ calls[2].attempt = 1
    /\ calls[2].model \in abandoned
    /\ calls[3].attempt = 0
    /\ calls[3].model # calls[2].model

\* C5: after a non-OK status other than 429 and 404 the next upstream call is the
\* next attempt on the same candidate while the candidate is below the cap, and
\* the first attempt on the next candidate only after the cap-th failure
C5_RetryOtherFailures ==
    [][(MadeCall /\ last.kind = "fail" /\ last.status \notin {429, 404}) =>
         IF last.attempt + 1 < Min(MAX_RETRIES, Len(RETRY_DELAYS))
         THEN NewCall.model = last.model /\ NewCall.attempt = last.attempt + 1
         ELSE /\ NewCall.attempt = 0
              /\ NewCall.model = preferred[IndexIn(preferred, last.model) + 1]]_vars

\* three failures of the first candidate, none a 429 or 404, then the second candidate
C5_Witness ==
    /\ Len(calls) = 4
    /\ abandoned = {}
    /\ calls[3].attempt = 2
    /\ calls[4].attempt = 0
    /\ calls[4].model = preferred[2]

OkKinds == {"ok", "okUnreadable"}

\* the body is made of the content: its text as raw, or the JSON value of a part of it
BuiltFrom(b, c) ==
    \/ b = RawBody(c)
    \/ /\ b.kind = "json"
       /\ \E i \in 1..Len(c) : \E j \in i..Len(c) :
            JSONparse(SubSeq(c, i, j)).ok /\ b.val = JSONparse(SubSeq(c, i, j)).val

\* C6 as stated: an OK upstream response is answered with status 200
C6_OkEndsLoop_Stated == last.kind \in OkKinds => res.status = 200

\* C6 amended: the first OK upstream response ends the loop: no upstream call follows
\* it, and the handler answers 200 with a body built from the response's content, or
\* 500 when the response's body cannot be read
C6_OkEndsLoop ==
    /\ [](last.kind = "ok" => res.status = 200 /\ BuiltFrom(res.body, last.content))
    /\ [](last.kind = "okUnreadable" => res = InternalError)
    /\ [][last.kind \in OkKinds => calls' = calls /\ res' = res]_vars

\* the second candidate answers OK after the first was given up
C6_Witness ==
    /\ last.kind = "ok"
    /\ res.status = 200
    /\ res.body.kind = "json"
    /\ Len(CandidatesCalled) = 2
    /\ Len(preferred) > 2

Exhausted(m) == m \in abandoned \/ CallsTo(m) = Min(MAX_RETRIES, Len(RETRY_DELAYS))

AllExhausted ==
    /\ preferred # <<>>
    /\ \A i \in 1..Len(preferred) : CallsTo(preferred[i]) >= 1 /\ Exhausted(preferred[i])

\* C7: when every candidate ends by 429/404 or by its cap-th failed response the
\* handler answers 502 with the body of the latest failed response as details (the
\* fixed text when that body is empty), and 502 is sent only then
C7_Exhausted502 ==
    /\ (AllExhausted /\ last.kind = "fail") =>
          /\ res.status = 502
          /\ res.details = IF last.text # "" THEN last.text
                           ELSE "No candidate models succeeded"
    /\ res.status = 502 => AllExhausted /\ last.kind = "fail"

\* several failures with bodies, the latest body empty
C7_Witness ==
    /\ res.status = 502
    /\ Len(calls) > Len(preferred)
    /\ abandoned # {}
    /\ last.text = ""
    /\ res.details = "No candidate models succeeded"

(***************************************************************************)
(* Properties of the extraction.                                           *)
(***************************************************************************)
\* the result of the first step that succeeds: the whole content, the interior of
\* the fenced block, the text from the first { to the last }; else the raw content
FirstSuccess(c) ==
    IF JSONparse(c).ok THEN JsonBody(JSONparse(c).val)
    ELSE IF fenceMatch(c).found /\ JSONparse(fenceMatch(c).group).ok
         THEN JsonBody(JSONparse(fenceMatch(c).group).val)
    ELSE IF JSONparse(BraceCandidate(c)).ok
         THEN JsonBody(JSONparse(BraceCandidate(c)).val)
    ELSE RawBody(c)

\* the later parse that succeeds first (fence interior, then brace substring) yields
\* the falsy value
LaterParseFalsy(c) ==
    LET fm == fenceMatch(c) IN
    IF fm.found /\ fm.group # <<>> /\ JSONparse(fm.group).ok
    THEN JSONparse(fm.group).val = <<ZERO>>
    ELSE JSONparse(BraceCandidate(c)).ok /\ JSONparse(BraceCandidate(c)).val = <<ZERO>>

\* C21: when the whole-content parse fails and the fence or brace parse yields a
\* falsy value the body is {raw: content}; when the whole-content parse succeeds
\* its value is the body, falsy or not
C21_FalsyExtractionIsRaw ==
    epc = "done" =>
       /\ JSONparse(content).ok => body = JsonBody(JSONparse(content).val)
       /\ (~JSONparse(content).ok /\ LaterParseFalsy(content)) => body = RawBody(content)

\* a fenced 0 after the word json was answered as raw content
C21_Witness ==
    /\ epc = "done"
    /\ content = <<FENCE, JSONWORD, WS, ZERO, FENCE>>
    /\ body = RawBody(content)

\* the content 0 on its own was answered as the value 0
C21_WitnessWhole ==
    /\ epc = "done"
    /\ content = <<WS, ZERO>>
    /\ body = JsonBody(<<ZERO>>)

\* C8: the 200 body is the result of the first of the three parses that succeeds,
\* in the fixed order, and {raw: content} when all three fail
C8_FirstSuccessfulStep == epc = "done" => body = FirstSuccess(content)


\* C22: in the serverless build the candidate list of a valid request is the
\* preference order restricted to the provider's ids when it listed any, the whole
\* preference order when it listed none, and deepseek/deepseek-r1:free alone when
\* the restriction leaves nothing; it is never empty and the request makes a call
C22_TriedList ==
    (variant = "api" /\ pc \in {"wait", "call", "done"} /\ req.method = "POST"
       /\ req.topic # "") =>
       LET kept == SelectSeq(PreferenceOrder, LAMBDA m : m \in available) IN
       /\ preferred = (IF available = {} THEN PreferenceOrder
                       ELSE IF kept = <<>> THEN <<"deepseek/deepseek-r1:free">>
                       ELSE kept)
       /\ preferred # <<>>
       /\ IsPrefix(CandidatesCalled, preferred)
       /\ pc \in {"wait", "done"} => Len(calls) >= 1

\* the provider listed one id that is not a preference: the fallback id alone was
\* tried, to the end
C22_Witness ==
    /\ variant = "api"
    /\ pc = "done"
    /\ req.model = GEMINI
    /\ available = {CUSTOM}
    /\ preferred = <<R1>>
    /\ Len(calls) = 3
    /\ res.status = 502

\* the latest upstream call threw: the fetch rejected or the body could not be read
Threw(l) == l.kind \in {"reject", "okUnreadable", "failUnreadable"}

\* C20: a call that throws ends the request at once with 500 'Internal server error';
\* no further call is made, neither to that candidate nor to a remaining one
C20_ExceptionNotRetried ==
    [][/\ Threw(last') =>
             /\ pc' = "done"
             /\ res'.status = 500
             /\ res'.error = "Internal server error"
       /\ Threw(last) => calls' = calls /\ res' = res]_vars

\* the second attempt on the first of several candidates threw: answered 500 with
\* one attempt and every other candidate left untried
C20_Witness ==
    /\ Threw(last)
    /\ pc = "done"
    /\ res.status = 500
    /\ Len(preferred) >= 3
    /\ Len(calls) = 2
    /\ last.attempt = 1
    /\ last.model = preferred[1]

\* C16: every generation request is answered: once a request has arrived the handler
\* reaches its response, the response is sent once and never changed, and its status
\* is 200, 400, 405, 500 or 502
C16_Terminates ==
    /\ (pc \in {"models", "wait", "call"}) ~> (pc = "done")
    /\ []((pc = "done") <=> (res # NoResponse))
    /\ [](res # NoResponse => res.status \in {200, 400, 405, 500, 502})
    /\ [][res # NoResponse => res' = res]_vars

\* a request was answered after every candidate had used every attempt
C16_Witness ==
    /\ pc = "done"
    /\ res.status = 502
    /\ Len(preferred) >= 4
    /\ Len(calls) = 3 * Len(preferred)
    /\ \A i \in 1..Len(calls) : calls[i].attempt > 0 => calls[i].waited > 0

(***************************************************************************)
(* The flat-file store: POST /api/roadmap/save and DELETE /api/roadmap/:id *)
(* of the Express build ("server") and of the serverless functions ("api"). *)
(* Every mutation loads the whole array, changes its copy and writes the   *)
(* whole array back; requests overlap between the two file operations.     *)
(***************************************************************************)
Builds == {"server", "api"}
Procs == {"p1", "p2"}

MaxClock == 1
MaxRecords == 3

Suffixes == {"a", "b"}
Roadmaps == {"", "roadmap1"}
Metadatas == {"undefined", "meta1"}
Ids == (0..MaxClock) \X Suffixes
NoId == <<-1, "">>

MissingFile == [kind |-> "missing", records |-> <<>>]
CorruptFile == [kind |-> "corrupt", records |-> <<>>]
ArrayFile(rs) == [kind |-> "array", records |-> rs]

loadRoadmapsLenient(f) ==
    CASE f.kind = "array" -> [ok |-> TRUE, value |-> f.records]
      [] OTHER -> [ok |-> TRUE, value |-> <<>>]

\* loadRoadmaps: the parsed array, [] on ENOENT, or the error rethrown
loadRoadmaps(f) ==
    CASE f.kind = "missing" -> [ok |-> TRUE, value |-> <<>>]
      [] f.kind = "array" -> [ok |-> TRUE, value |-> f.records]
      [] OTHER -> [ok |-> FALSE, value |-> <<>>]

saveRoadmapsMerging(rs) ==
    ArrayFile(file.records \o
              SelectSeq(rs, LAMBDA r : \A i \in 1..Len(file.records) : file.records[i] # r))

\* saveRoadmaps: writeFile(JSON.stringify(roadmaps))
saveRoadmaps(rs) == ArrayFile(rs)

\* Date.now().toString() + Math.random().toString(36).substr(2, 9)
NewId(t, rnd) == <<t, rnd>>

\* the record a save builds
NewRoadmap(t, rnd, roadmap, metadata) ==
    [id |-> NewId(t, rnd), roadmap |-> roadmap,
     metadata |-> IF metadata = "undefined" THEN "{}" ELSE metadata,
     createdAt |-> t, updatedAt |-> t]

PushFront(rs, r) == <<r>> \o rs

\* roadmaps.push(newRoadmap)
Push(rs, r) == Append(rs, r)

RECURSIVE FilterOutFirst(_, _)
FilterOutFirst(rs, id) ==
    IF rs = <<>> THEN <<>>
    ELSE IF Head(rs).id = id THEN Tail(rs)
    ELSE <<Head(rs)>> \o FilterOutFirst(Tail(rs), id)

\* roadmaps.filter(r => r.id !== id)
FilterOut(rs, id) == SelectSeq(rs, LAMBDA r : r.id # id)

FindLast(rs, id) ==
    LET found == SelectSeq(rs, LAMBDA r : r.id = id)
    IN IF found = <<>> THEN <<>> ELSE <<found[Len(found)]>>

\* roadmaps.find(r => r.id === id): the first match alone, or nothing (undefined)
Find(rs, id) ==
    LET found == SelectSeq(rs, LAMBDA r : r.id = id)
    IN IF found = <<>> THEN <<>> ELSE <<Head(found)>>

\* r.metadata?.topic || ''
TopicOf(metadata) == IF metadata = "meta1" THEN "topic1" ELSE ""

\* the list entry of a record: id, title, topic and dates, without the roadmap
Summary(r) ==
    [id |-> r.id,
     title |-> IF TopicOf(r.metadata) # "" THEN TopicOf(r.metadata) ELSE "Untitled Roadmap",
     topic |-> TopicOf(r.metadata),
     createdAt |-> r.createdAt, updatedAt |-> r.updatedAt]

\* roadmaps.map(r => ({...}))
Map(rs) == [i \in 1..Len(rs) |-> Summary(rs[i])]

NoReverse(list) == list

\* list.reverse()
Reverse(list) == [i \in 1..Len(list) |-> list[Len(list) + 1 - i]]

NoStoreRequest == [op |-> "none", method |-> "", roadmap |-> "", metadata |-> "undefined",
                   id |-> NoId]
NoStoreResponse == [status |-> 0, id |-> NoId, body |-> <<>>]
StoreResponse(st) == [status |-> st, id |-> NoId, body |-> <<>>]

StoreInit ==
    /\ build \in Builds
    /\ file = MissingFile
    /\ now = 0
    /\ spc = [p \in Procs |-> "idle"]
    /\ sreq = [p \in Procs |-> NoStoreRequest]
    /\ roadmaps = [p \in Procs |-> <<>>]
    /\ out = [p \in Procs |-> <<>>]
    /\ sres = [p \in Procs |-> NoStoreResponse]

\* the store over a file that cannot be read or whose content is not JSON
StoreInitUnreadable ==
    /\ build \in Builds
    /\ file = CorruptFile
    /\ now = 0
    /\ spc = [p \in Procs |-> "idle"]
    /\ sreq = [p \in Procs |-> NoStoreRequest]
    /\ roadmaps = [p \in Procs |-> <<>>]
    /\ out = [p \in Procs |-> <<>>]
    /\ sres = [p \in Procs |-> NoStoreResponse]

Answer(p, r) ==
    /\ sres' = [sres EXCEPT ![p] = r]
    /\ spc' = [spc EXCEPT ![p] = "done"]

\* the clock advances
Tick ==
    /\ now < MaxClock
    /\ now' = now + 1
    /\ UNCHANGED <<build, file, spc, sreq, roadmaps, out, sres>>

\* POST /api/roadmap/save arrives: the method check (api), the roadmap check
StartSave(p, method, roadmap, metadata) ==
    /\ spc[p] = "idle"
    /\ build = "server" => method = "POST"
    /\ sreq' = [sreq EXCEPT ![p] = [op |-> "save", method |-> method, roadmap |-> roadmap,
                                    metadata |-> metadata, id |-> NoId]]
    /\ IF method # "POST" THEN Answer(p, StoreResponse(405))
       ELSE IF roadmap = "" THEN Answer(p, StoreResponse(400))
       ELSE /\ spc' = [spc EXCEPT ![p] = "load"]
            /\ UNCHANGED sres
    /\ UNCHANGED <<build, file, now, roadmaps, out>>

\* the save's loadRoadmaps returns: the new record is built and pushed
SaveLoad(p, rnd) ==
    /\ spc[p] = "load"
    /\ sreq[p].op = "save"
    /\ Len(loadRoadmaps(file).value) < MaxRecords
    /\ IF loadRoadmaps(file).ok
       THEN /\ roadmaps' = [roadmaps EXCEPT ![p] = loadRoadmaps(file).value]
            /\ out' = [out EXCEPT ![p] =
                          Push(loadRoadmaps(file).value,
                               NewRoadmap(now, rnd, sreq[p].roadmap, sreq[p].metadata))]
            /\ spc' = [spc EXCEPT ![p] = "write"]
            /\ UNCHANGED sres
       ELSE /\ Answer(p, StoreResponse(500))
            /\ UNCHANGED <<roadmaps, out>>
    /\ UNCHANGED <<build, file, now, sreq>>

\* the save's saveRoadmaps returns: the file holds the array, the answer names the id
SaveWrite(p) ==
    /\ spc[p] = "write"
    /\ sreq[p].op = "save"
    /\ file' = saveRoadmaps(out[p])
    /\ Answer(p, [status |-> 200, id |-> out[p][Len(out[p])].id,
                   body |-> <<out[p][Len(out[p])]>>])
    /\ UNCHANGED <<build, now, sreq, roadmaps, out>>

\* writeFile fails: the catch answers 500
WriteFails(p) ==
    /\ spc[p] = "write"
    /\ Answer(p, StoreResponse(500))
    /\ UNCHANGED <<build, file, now, sreq, roadmaps, out>>

\* DELETE /api/roadmap/:id arrives: the id check and the method check (api)
StartDelete(p, method, id) ==
    /\ spc[p] = "idle"
    /\ build = "server" => method = "DELETE" /\ id # NoId
    /\ sreq' = [sreq EXCEPT ![p] = [op |-> "delete", method |-> method, roadmap |-> "",
                                    metadata |-> "undefined", id |-> id]]
    /\ IF id = NoId THEN Answer(p, StoreResponse(400))
       ELSE IF method # "DELETE" THEN Answer(p, StoreResponse(405))
       ELSE /\ spc' = [spc EXCEPT ![p] = "load"]
            /\ UNCHANGED sres
    /\ UNCHANGED <<build, file, now, roadmaps, out>>

\* the delete's loadRoadmaps returns: filter, 404 when nothing was removed
DeleteLoad(p) ==
    /\ spc[p] = "load"
    /\ sreq[p].op = "delete"
    /\ IF ~loadRoadmaps(file).ok
       THEN /\ Answer(p, StoreResponse(500))
            /\ UNCHANGED <<roadmaps, out>>
       ELSE LET filtered == FilterOut(loadRoadmaps(file).value, sreq[p].id) IN
            /\ roadmaps' = [roadmaps EXCEPT ![p] = loadRoadmaps(file).value]
            /\ out' = [out EXCEPT ![p] = filtered]
            /\ IF Len(filtered) = Len(loadRoadmaps(file).value)
               THEN Answer(p, StoreResponse(404))
               ELSE /\ spc' = [spc EXCEPT ![p] = "write"]
                    /\ UNCHANGED sres
    /\ UNCHANGED <<build, file, now, sreq>>

\* the delete's saveRoadmaps returns
DeleteWrite(p) ==
    /\ spc[p] = "write"
    /\ sreq[p].op = "delete"
    /\ file' = saveRoadmaps(out[p])
    /\ Answer(p, StoreResponse(200))
    /\ UNCHANGED <<build, now, sreq, roadmaps, out>>

\* GET /api/roadmap/:id arrives: the id check (api)
StartGet(p, id) ==
    /\ spc[p] = "idle"
    /\ build = "server" => id # NoId
    /\ sreq' = [sreq EXCEPT ![p] = [op |-> "get", method |-> "GET", roadmap |-> "",
                                    metadata |-> "undefined", id |-> id]]
    /\ IF id = NoId THEN Answer(p, StoreResponse(400))
       ELSE /\ spc' = [spc EXCEPT ![p] = "load"]
            /\ UNCHANGED sres
    /\ UNCHANGED <<build, file, now, roadmaps, out>>

\* the get's loadRoadmaps returns: find, 404 when there is no match
GetLoad(p) ==
    /\ spc[p] = "load"
    /\ sreq[p].op = "get"
    /\ IF ~loadRoadmaps(file).ok
       THEN /\ Answer(p, StoreResponse(500))
            /\ UNCHANGED roadmaps
       ELSE LET roadmap == Find(loadRoadmaps(file).value, sreq[p].id) IN
            /\ roadmaps' = [roadmaps EXCEPT ![p] = loadRoadmaps(file).value]
            /\ IF roadmap = <<>>
               THEN Answer(p, StoreResponse(404))
               ELSE Answer(p, [status |-> 200, id |-> NoId, body |-> roadmap])
    /\ UNCHANGED <<build, file, now, sreq, out>>

\* GET /api/roadmaps arrives: the method check (api)
StartList(p, method) ==
    /\ spc[p] = "idle"
    /\ build = "server" => method = "GET"
    /\ sreq' = [sreq EXCEPT ![p] = [op |-> "list", method |-> method, roadmap |-> "",
                                    metadata |-> "undefined", id |-> NoId]]
    /\ IF method # "GET" THEN Answer(p, StoreResponse(405))
       ELSE /\ spc' = [spc EXCEPT ![p] = "load"]
            /\ UNCHANGED sres
    /\ UNCHANGED <<build, file, now, roadmaps, out>>

\* the list's loadRoadmaps returns: the summaries, most recent first
ListLoad(p) ==
    /\ spc[p] = "load"
    /\ sreq[p].op = "list"
    /\ IF ~loadRoadmaps(file).ok
       THEN /\ Answer(p, StoreResponse(500))
            /\ UNCHANGED roadmaps
       ELSE /\ roadmaps' = [roadmaps EXCEPT ![p] = loadRoadmaps(file).value]
            /\ Answer(p, [status |-> 200, id |-> NoId,
                          body |-> Reverse(Map(loadRoadmaps(file).value))])
    /\ UNCHANGED <<build, file, now, sreq, out>>

\* the response is on its way; the connection serves the next request
Finish(p) ==
    /\ spc[p] = "done"
    /\ spc' = [spc EXCEPT ![p] = "idle"]
    /\ sreq' = [sreq EXCEPT ![p] = NoStoreRequest]
    /\ roadmaps' = [roadmaps EXCEPT ![p] = <<>>]
    /\ out' = [out EXCEPT ![p] = <<>>]
    /\ sres' = [sres EXCEPT ![p] = NoStoreResponse]
    /\ UNCHANGED <<build, file, now>>

StoreFrame == UNCHANGED <<genVars, extractVars, clientVars, promptVars, throttleVars,
                          modelsVars>>

(***************************************************************************)
(* Properties of the store.                                                *)
(***************************************************************************)
\* the stored array: empty while the file does not exist
Stored(f) == IF f.kind = "array" THEN f.records ELSE <<>>

\* request p writes the file it loaded: nothing changed the file in between
WritesInIsolation(p) ==
    /\ spc[p] = "write"
    /\ sres'[p].status = 200
    /\ roadmaps[p] = Stored(file)

\* C9: a successful save run in isolation appends exactly one record, carrying the
\* submitted roadmap and metadata, at the end of the stored array, and keeps every
\* earlier record unchanged and in place
C9_SaveAppendsOne ==
    [][\A p \in Procs : (sreq[p].op = "save" /\ WritesInIsolation(p)) =>
         LET old == Stored(file)
             new == Stored(file')
         IN /\ file'.kind = "array"
            /\ Len(new) = Len(old) + 1
            /\ SubSeq(new, 1, Len(old)) = old
            /\ new[Len(new)].roadmap = sreq[p].roadmap
            /\ new[Len(new)].metadata =
                  (IF sreq[p].metadata = "undefined" THEN "{}" ELSE sreq[p].metadata)
            /\ new[Len(new)].id = sres'[p].id]_vars

\* a save without metadata has appended a third record to two differing ones
C9_Witness ==
    /\ spc["p1"] = "done"
    /\ sreq["p1"].op = "save"
    /\ sreq["p1"].metadata = "undefined"
    /\ sres["p1"].status = 200
    /\ Len(roadmaps["p1"]) = 2
    /\ roadmaps["p1"][1] # roadmaps["p1"][2]
    /\ Len(Stored(file)) = 3
    /\ file.records[3].metadata = "{}"

\* C10: a successful delete run in isolation leaves exactly the records whose id
\* differs from :id, unchanged and in their previous order; none with that id
\* remains and the store holds at least one record less
C10_DeleteRemovesId ==
    [][\A p \in Procs : (sreq[p].op = "delete" /\ WritesInIsolation(p)) =>
         LET old == Stored(file)
             new == Stored(file')
         IN /\ file'.kind = "array"
            /\ new = SelectSeq(old, LAMBDA r : r.id # sreq[p].id)
            /\ \A i \in 1..Len(new) : new[i].id # sreq[p].id
            /\ Len(new) <= Len(old) - 1]_vars

\* a delete has removed two records that shared the id and kept the third
C10_Witness ==
    /\ spc["p1"] = "done"
    /\ sreq["p1"].op = "delete"
    /\ sres["p1"].status = 200
    /\ Len(roadmaps["p1"]) = 3
    /\ roadmaps["p1"][1].id = sreq["p1"].id
    /\ roadmaps["p1"][3].id = sreq["p1"].id
    /\ Stored(file) = <<roadmaps["p1"][2]>>


\* C11: GET /api/roadmap/:id answers 200 with the earliest stored record whose id
\* equals :id when there is one, 404 when there is none, and never writes the file
C11_GetById ==
    [][\A p \in Procs : (spc[p] = "load" /\ sreq[p].op = "get") =>
         LET old == Stored(file)
             hits == {i \in 1..Len(old) : old[i].id = sreq[p].id}
         IN /\ file' = file
            /\ spc'[p] = "done" =>
                 IF hits = {}
                 THEN sres'[p].status = 404 /\ sres'[p].body = <<>>
                 ELSE /\ sres'[p].status = 200
                      /\ sres'[p].body = <<old[CHOOSE i \in hits : \A j \in hits : i <= j]>>
                      /\ sres'[p].body[1].id = sreq[p].id]_vars

\* a get has answered the first of two differing records that share the id
C11_Witness ==
    /\ spc["p1"] = "done"
    /\ sreq["p1"].op = "get"
    /\ sres["p1"].status = 200
    /\ Len(Stored(file)) = 3
    /\ file.records[2].id = sreq["p1"].id
    /\ file.records[3].id = sreq["p1"].id
    /\ file.records[1].id # sreq["p1"].id
    /\ file.records[2] # file.records[3]
    /\ sres["p1"].body = <<file.records[2]>>

\* a get has answered 404 for an id that a non-empty store does not hold
C11_Witness404 ==
    /\ spc["p1"] = "done"
    /\ sreq["p1"].op = "get"
    /\ sres["p1"].status = 404
    /\ Len(Stored(file)) = 2

\* the array request p means to leave: the array it loaded with its own change alone
OwnChange(p, new) ==
    IF sreq[p].op = "save"
    THEN /\ Len(new) = Len(roadmaps[p]) + 1
         /\ SubSeq(new, 1, Len(roadmaps[p])) = roadmaps[p]
         /\ new[Len(new)].roadmap = sreq[p].roadmap
         /\ new[Len(new)].id = sres'[p].id
    ELSE new = SelectSeq(roadmaps[p], LAMBDA r : r.id # sreq[p].id)

\* p and q both loaded the file before either wrote it, and q's write has landed
BothReadFirst(p, q) ==
    /\ p # q
    /\ spc[p] = "write"
    /\ spc[q] = "done"
    /\ sreq[q].op \in {"save", "delete"}
    /\ sres[q].status = 200
    /\ roadmaps[p] = roadmaps[q]
    /\ file = ArrayFile(out[q])

\* C12: when two mutating requests both read the file before either writes it, both
\* answer success and the file ends as the array of the later write, which is that
\* request's own snapshot with only its own change; the earlier write is lost
C12_LastWriteWins ==
    [][\A p, q \in Procs : (BothReadFirst(p, q) /\ file' # file) =>
          /\ sres'[p].status = 200
          /\ sres'[q].status = 200
          /\ file'.kind = "array"
          /\ OwnChange(p, file'.records)
          /\ file'.records # out[q]]_vars

\* a save and a delete loaded the same record; the delete answered first, the save
\* wrote last, and the file holds the deleted record again next to the saved one
C12_Witness ==
    /\ spc["p1"] = "done" /\ sreq["p1"].op = "save" /\ sres["p1"].status = 200
    /\ spc["p2"] = "done" /\ sreq["p2"].op = "delete" /\ sres["p2"].status = 200
    /\ roadmaps["p1"] = roadmaps["p2"]
    /\ Len(roadmaps["p1"]) = 1
    /\ out["p2"] = <<>>
    /\ file = ArrayFile(out["p1"])
    /\ Len(file.records) = 2
    /\ file.records[1].id = sreq["p2"].id
    /\ file.records[2].id # sreq["p2"].id

\* C13: no two records of the stored array have the same id
C13_UniqueIds ==
    \A i, j \in 1..Len(Stored(file)) : i # j => file.records[i].id # file.records[j].id

\* C14: a request answered 405, 400 or 404 has made no upstream chat call and has
\* not written the store file (it is answered before its handler reaches a call or
\* a write), and the generation handler answers a wrong method 405 whatever the topic
C14_RejectsWithoutSideEffects ==
    [][/\ (res = NoResponse /\ res'.status \in {400, 404, 405}) =>
             /\ pc = "idle"
             /\ calls' = <<>>
             /\ file' = file
       /\ (pc = "idle" /\ pc' # "idle" /\ variant = "api" /\ req'.method # "POST") =>
             res'.status = 405
       /\ \A p \in DOMAIN sres :
             (sres[p].status = 0 /\ sres'[p].status \in {400, 404, 405}) =>
                /\ spc[p] \in {"idle", "load"}
                /\ file' = file
                /\ calls' = <<>>]_vars

\* the serverless generation handler has answered 405 to a request without a topic
C14_Witness ==
    /\ variant = "api"
    /\ req.method = "GET"
    /\ req.topic = ""
    /\ res.status = 405
    /\ calls = <<>>

\* an unknown id was answered 404 by a delete over a store that holds records
C14_WitnessStore ==
    /\ build = "api"
    /\ sreq["p1"].op = "delete"
    /\ sres["p1"].status = 404
    /\ Len(Stored(file)) = 2

\* C18: GET /api/roadmaps answers one summary per stored record, in the reverse of the
\* stored order (the record saved last comes first), and does not write the file
C18_ListReversed ==
    [][\A p \in Procs : (spc[p] = "load" /\ sreq[p].op = "list") =>
         LET old == Stored(file)
             n == Len(old)
         IN /\ file' = file
            /\ spc'[p] = "done" =>
                 /\ sres'[p].status = 200
                 /\ Len(sres'[p].body) = n
                 /\ \A i \in 1..n :
                      /\ sres'[p].body[i].id = old[n + 1 - i].id
                      /\ sres'[p].body[i].topic = TopicOf(old[n + 1 - i].metadata)
                      /\ sres'[p].body[i].createdAt = old[n + 1 - i].createdAt]_vars

\* three records saved at different times were listed, the last saved first
C18_Witness ==
    /\ spc["p1"] = "done"
    /\ sreq["p1"].op = "list"
    /\ sres["p1"].status = 200
    /\ Len(Stored(file)) = 3
    /\ file.records[1].id # file.records[3].id
    /\ file.records[1].createdAt < file.records[3].createdAt
    /\ Len(sres["p1"].body) = 3
    /\ sres["p1"].body[1].id = file.records[3].id
    /\ sres["p1"].body[3].id = file.records[1].id

\* C25: a load of a file that does not exist yields the empty list and the request
\* goes on; a load that fails otherwise answers 500, and the unreadable file is
\* never written
C25_UnreadableNotOverwritten ==
    [][/\ \A p \in Procs : (spc[p] = "load" /\ spc'[p] # "load") =>
             /\ file.kind = "missing" =>
                   /\ roadmaps'[p] = <<>>
                   /\ sres'[p].status # 500
                   /\ sreq[p].op = "save" => spc'[p] = "write" /\ Len(out'[p]) = 1
                   /\ sreq[p].op \in {"delete", "get"} => sres'[p].status = 404
                   /\ sreq[p].op = "list" => sres'[p].status = 200
             /\ file.kind = "corrupt" =>
                   /\ sres'[p].status = 500
                   /\ spc'[p] = "done"
       /\ file.kind = "corrupt" => file' = file]_vars

\* a save with roadmap data was answered 500 over the unreadable file
C25_Witness ==
    /\ file = CorruptFile
    /\ spc["p1"] = "done"
    /\ sreq["p1"].op = "save"
    /\ sreq["p1"].roadmap # ""
    /\ sres["p1"].status = 500

\* the file is as save q wrote it, q answered 200, and get p asks for the id q returned
GetsWhatWasSaved(p, q) ==
    /\ p # q
    /\ spc[q] = "done"
    /\ sreq[q].op = "save"
    /\ sres[q].status = 200
    /\ file = ArrayFile(out[q])
    /\ spc[p] = "load"
    /\ sreq[p].op = "get"
    /\ sreq[p].id = sres[q].id

\* C17: a get of the id a successful save returned, with the file untouched since that
\* save, answers a record with that id and the roadmap and metadata submitted to the
\* save ({} when no metadata was submitted)
C17_SaveThenGet ==
    [][\A p, q \in Procs : (GetsWhatWasSaved(p, q) /\ spc'[p] = "done") =>
          /\ sres'[p].status = 200
          /\ sres'[p].body[1].id = sres[q].id
          /\ sres'[p].body[1].roadmap = sreq[q].roadmap
          /\ sres'[p].body[1].metadata =
                (IF sreq[q].metadata = "undefined" THEN "{}" ELSE sreq[q].metadata)]_vars

(***************************************************************************)
(* The browser client: RoadmapGenerator's generation flow.  Each call of   *)
(* generateRoadmap is an activation; it is suspended while its fetch is in *)
(* flight and while its automatic save is awaited.                         *)
(***************************************************************************)
MaxGens == 3
Gens == 1..MaxGens

\* bodies the server answers 200 with: the number 0, an object, {raw: content}
Results == {JsonBody(<<ZERO>>), JsonBody(<<LBRACE, RBRACE>>), RawBody(<<>>)}

\* how an activation ended: a saved result, a result not saved, an HTTP error, a
\* network error, an abort
Ended == {"ok", "nodata", "http", "network", "abort"}

\* the truthiness the client tests: every object is truthy, null and 0 are not
ResultTruthy(r) == r.kind = "raw" \/ Truthy(r.val)

saveRoadmapAlways(s, g, r) == Append(s, [gen |-> g, roadmap |-> r])

\* saveRoadmap(): if (!this.currentRoadmap) return; else the POST is issued
saveRoadmap(s, g, r) ==
    IF ~ResultTruthy(r) THEN s ELSE Append(s, [gen |-> g, roadmap |-> r])

ClientInit ==
    /\ isGenerating = FALSE
    /\ currentRoadmap = JsonBody(Null)
    /\ abortController = 0
    /\ aborted = {}
    /\ output = "empty"
    /\ gens = [g \in Gens |-> "none"]
    /\ saves = <<>>
    /\ alone = [g \in Gens |-> TRUE]

ClientParked ==
    /\ isGenerating = FALSE
    /\ currentRoadmap = JsonBody(Null)
    /\ abortController = 0
    /\ aborted = {}
    /\ output = "off"
    /\ gens = <<>>
    /\ saves = <<>>
    /\ alone = <<>>

Suspended(g) == gens[g] \in {"flight", "saving"}

\* generateRoadmap up to its first await: the flag, a new controller, the fetch
generateRoadmap(g) ==
    /\ gens[g] = "none"
    /\ \A h \in Gens : h < g => gens[h] # "none"
    /\ isGenerating' = TRUE
    /\ abortController' = g
    /\ gens' = [gens EXCEPT ![g] = "flight"]
    /\ alone' = [h \in Gens |->
                   IF h = g THEN \A k \in Gens : ~Suspended(k)
                   ELSE IF Suspended(h) THEN FALSE ELSE alone[h]]
    /\ UNCHANGED <<currentRoadmap, aborted, output, saves>>

\* the form is submitted
handleSubmit(g) ==
    /\ output # "off"
    /\ ~isGenerating
    /\ generateRoadmap(g)

\* the Try Again button of the error state is clicked
retryGeneration(g) ==
    /\ output = "error"
    /\ generateRoadmap(g)

\* Escape is pressed: cancelGeneration aborts the controller the client holds
handleKeyboard ==
    /\ isGenerating
    /\ abortController # 0
    /\ aborted' = aborted \cup {abortController}
    /\ UNCHANGED <<isGenerating, currentRoadmap, abortController, output, gens, saves, alone>>

\* the window goes offline: the error state is rendered
Offline ==
    /\ isGenerating
    /\ output' = "error"
    /\ UNCHANGED <<isGenerating, currentRoadmap, abortController, aborted, gens, saves, alone>>

\* the fetch of activation g resolves OK with a body: the result is kept and
\* rendered and saveRoadmap is called; without a save the finally block runs
ResponseOk(g, result) ==
    /\ gens[g] = "flight"
    /\ g \notin aborted
    /\ currentRoadmap' = result
    /\ output' = IF ResultTruthy(result) THEN "roadmap" ELSE "error"
    /\ saves' = saveRoadmap(saves, g, result)
    /\ IF saves' # saves
       THEN /\ gens' = [gens EXCEPT ![g] = "saving"]
            /\ UNCHANGED isGenerating
       ELSE /\ gens' = [gens EXCEPT ![g] = "nodata"]
            /\ isGenerating' = FALSE
    /\ UNCHANGED <<abortController, aborted, alone>>

\* the awaited saveRoadmap returns, saved or not: the finally block runs
SaveSettles(g) ==
    /\ gens[g] = "saving"
    /\ gens' = [gens EXCEPT ![g] = "ok"]
    /\ isGenerating' = FALSE
    /\ UNCHANGED <<currentRoadmap, abortController, aborted, output, saves, alone>>

\* the generation ends without a result: the error is rendered, finally runs
EndsInError(g, how) ==
    /\ gens[g] = "flight"
    /\ gens' = [gens EXCEPT ![g] = how]
    /\ output' = "error"
    /\ isGenerating' = FALSE
    /\ UNCHANGED <<currentRoadmap, abortController, aborted, saves, alone>>

\* the response is not OK
ResponseNotOk(g) == g \notin aborted /\ EndsInError(g, "http")

\* the fetch rejects, or the OK body cannot be read
FetchRejects(g) == g \notin aborted /\ EndsInError(g, "network")

\* the fetch rejects with AbortError after its signal was aborted
FetchAborted(g) == g \in aborted /\ EndsInError(g, "abort")

ClientFrame == UNCHANGED <<genVars, extractVars, storeVars, promptVars, throttleVars,
                           modelsVars>>

(***************************************************************************)
(* Properties of the client.                                               *)
(***************************************************************************)
InFlight == {g \in DOMAIN gens : gens[g] = "flight"}

\* C15: at most one POST /api/roadmap of the client is in flight at any time
C15_OneInFlight == Cardinality(InFlight) <= 1

\* setLoadingState: the submit button is disabled in the statement after the one
\* that sets the flag and enabled in the statement after the one that clears it
SubmitDisabled == isGenerating

\* C26: isGenerating is set, and the submit button disabled, from the start of every
\* generateRoadmap call until that call's request has settled, and every call
\* whose request settles ends with the flag cleared and the button enabled
C26_FlagUntilSettled ==
    /\ [](\A g \in DOMAIN gens : Suspended(g) => isGenerating /\ SubmitDisabled)
    /\ [][\A g \in DOMAIN gens :
            (Suspended(g) /\ ~Suspended(g)') =>
               gens'[g] \in Ended /\ ~isGenerating' /\ ~SubmitDisabled']_vars
    /\ \A g \in Gens : (gens[g] = "flight") ~> (gens[g] \in Ended)

\* C27: Escape pressed while isGenerating is set aborts the request in flight; an
\* aborted request ends as 'Generation cancelled' with nothing rendered from it or
\* saved; Escape pressed while no generation runs aborts nothing
C27_EscapeAborts ==
    [][/\ aborted' # aborted => InFlight \subseteq aborted'
       /\ \A g \in DOMAIN gens :
            (gens[g] = "flight" /\ g \in aborted /\ gens'[g] # "flight") =>
               /\ gens'[g] = "abort"
               /\ output' = "error"
               /\ saves' = saves
               /\ currentRoadmap' = currentRoadmap
       /\ ~isGenerating => aborted' = aborted]_vars

SavesOf(s, g) == {i \in 1..Len(s) : s[i].gen = g}

\* what holds of every activation whatever its result
AutoSaveCommon(g) ==
    /\ (gens[g] = "flight" /\ gens'[g] \in {"http", "network", "abort"}) =>
          /\ saves' = saves
          /\ currentRoadmap' = currentRoadmap
    /\ gens[g] # "flight" => SavesOf(saves', g) = SavesOf(saves, g)
    /\ Cardinality(SavesOf(saves', g)) = IF gens'[g] \in {"saving", "ok"} THEN 1 ELSE 0
    /\ (gens[g] = "saving" /\ gens'[g] # "saving") => gens'[g] = "ok" /\ ~isGenerating'

\* activation g receives an OK response in this step
ReceivesOk(g) == gens[g] = "flight" /\ gens'[g] \in {"saving", "ok", "nodata"}

\* the step issues one save carrying the result, the activation's finally block
\* still to come
SavesResult(g) ==
    /\ saves' = Append(saves, [gen |-> g, roadmap |-> currentRoadmap'])
    /\ gens'[g] = "saving"
    /\ alone[g] => isGenerating'

Max(a, b) == IF a > b THEN a ELSE b

JsUndefined == [kind |-> "undefined", tenths |-> 0, text |-> ""]
JsNull == [kind |-> "null", tenths |-> 0, text |-> ""]
JsBoolean(b) == [kind |-> "boolean", tenths |-> IF b THEN 10 ELSE 0, text |-> ""]
JsNumber(t) == [kind |-> "number", tenths |-> t, text |-> ""]
JsInfinity == [kind |-> "infinity", tenths |-> 0, text |-> ""]
JsString(x) == [kind |-> "string", tenths |-> 0, text |-> x]
JsObject == [kind |-> "object", tenths |-> 0, text |-> ""]

\* values a JSON body can give a timeframe field (1e999 parses to Infinity)
NumberTenths == {-50, 0, 5, 10, 25, 130, 520, 525, 1000}
TimeframeValues ==
    {JsUndefined, JsNull, JsBoolean(TRUE), JsBoolean(FALSE), JsInfinity, JsObject,
     JsString(""), JsString("8"), JsString("abc")}
       \cup {JsNumber(t) : t \in NumberTenths}

NaN == [finite |-> FALSE, tenths |-> 0]
Finite(t) == [finite |-> TRUE, tenths |-> t]

\* Number(v)
Number(v) ==
    CASE v.kind = "undefined" -> NaN
      [] v.kind = "null" -> Finite(0)
      [] v.kind = "boolean" -> Finite(v.tenths)
      [] v.kind = "number" -> Finite(v.tenths)
      [] v.kind = "infinity" -> [finite |-> FALSE, tenths |-> 0]
      [] v.kind = "string" ->
           (IF v.text = "" THEN Finite(0) ELSE IF v.text = "8" THEN Finite(80) ELSE NaN)
      [] OTHER -> NaN

ClampFromAbove(t) == Min(520, t)

\* Math.max(1, Math.min(52, x))
Clamp(t) == Max(10, Min(520, t))

\* const weeks = ...
Weeks(tw, tm) ==
    IF Number(tw).finite THEN Clamp(Number(tw).tenths)
    ELSE IF Number(tm).finite THEN Clamp(Number(tm).tenths * 4)
    ELSE 120

PromptInit ==
    /\ timeframeWeeks \in TimeframeValues
    /\ timeframeMonths \in TimeframeValues
    /\ weeks = 0
    /\ wpc = "ready"

\* the handler computes the weeks of a request body
ComputeWeeks ==
    /\ wpc = "ready"
    /\ weeks' = Weeks(timeframeWeeks, timeframeMonths)
    /\ wpc' = "done"
    /\ UNCHANGED <<timeframeWeeks, timeframeMonths>>

PromptFrame == UNCHANGED <<genVars, extractVars, storeVars, clientVars, throttleVars,
                           modelsVars>>

\* the number a value converts to is finite, and which
IsFinite(v) ==
    \/ v.kind \in {"null", "boolean", "number"}
    \/ v.kind = "string" /\ v.text \in {"", "8"}

AsTenths(v) ==
    IF v.kind = "string" THEN (IF v.text = "8" THEN 80 ELSE 0) ELSE v.tenths

\* x limited to 1..52
Within(x) == IF x < 10 THEN 10 ELSE IF x > 520 THEN 520 ELSE x

\* C23: the weeks of the prompt are within 1..52: timeframeWeeks limited to that
\* range when it converts to a finite number, else four times timeframeMonths
\* limited to it when that converts to a finite number, else 12
C23_WeeksInRange ==
    wpc = "done" =>
       /\ weeks >= 10 /\ weeks <= 520
       /\ weeks = (IF IsFinite(timeframeWeeks) THEN Within(AsTenths(timeframeWeeks))
                   ELSE IF IsFinite(timeframeMonths)
                        THEN Within(4 * AsTenths(timeframeMonths))
                        ELSE 120)

\* both fields given: the weeks, below the range, win over the months
C23_Witness ==
    /\ wpc = "done"
    /\ timeframeWeeks = JsNumber(5)
    /\ timeframeMonths = JsNumber(130)
    /\ weeks = 10

\* no weeks given: thirteen months are limited to 52 weeks
C23_WitnessMonths ==
    /\ wpc = "done"
    /\ timeframeWeeks = JsUndefined
    /\ timeframeMonths = JsNumber(130)
    /\ weeks = 520

(***************************************************************************)
(* The throttle of the Express server's POST /api/roadmap.  Requests are   *)
(* served concurrently: one that has to wait is suspended at its timer     *)
(* while others arrive.                                                    *)
(***************************************************************************)
REQUEST_INTERVAL == 1000

MaxTime == 3000
MaxPasses == 4
TimeStep == 500

ThrottleInit ==
    /\ clock = REQUEST_INTERVAL
    /\ lastRequestAt = 0
    /\ tpc = [p \in Procs |-> "idle"]
    /\ wakeAt = [p \in Procs |-> 0]
    /\ passes = <<>>

\* lastRequestAt = Date.now(): the request goes on to call upstream
Pass(p) ==
    /\ lastRequestAt' = clock
    /\ passes' = Append(passes, clock)
    /\ tpc' = [tpc EXCEPT ![p] = "passed"]

\* a request with a topic reaches the throttle: it goes on at once, or waits for
\* the rest of the interval
Arrive(p) ==
    /\ tpc[p] = "idle"
    /\ Len(passes) + Cardinality({q \in Procs : tpc[q] = "waiting"}) < MaxPasses
    /\ LET elapsed == clock - lastRequestAt IN
       IF elapsed < REQUEST_INTERVAL
       THEN /\ tpc' = [tpc EXCEPT ![p] = "waiting"]
            /\ wakeAt' = [wakeAt EXCEPT ![p] = clock + (REQUEST_INTERVAL - elapsed)]
            /\ UNCHANGED <<lastRequestAt, passes>>
       ELSE /\ Pass(p)
            /\ UNCHANGED wakeAt
    /\ UNCHANGED clock

\* the timer of a waiting request fires, at its due time or later
Wake(p) ==
    /\ tpc[p] = "waiting"
    /\ clock >= wakeAt[p]
    /\ Pass(p)
    /\ UNCHANGED <<clock, wakeAt>>

\* the request is answered; the connection carries the next one
Leave(p) ==
    /\ tpc[p] = "passed"
    /\ tpc' = [tpc EXCEPT ![p] = "idle"]
    /\ UNCHANGED <<clock, lastRequestAt, wakeAt, passes>>

\* time passes
Advance ==
    /\ tpc # <<>>
    /\ clock + TimeStep <= MaxTime
    /\ clock' = clock + TimeStep
    /\ UNCHANGED <<lastRequestAt, tpc, wakeAt, passes>>

ThrottleFrame == UNCHANGED <<genVars, extractVars, storeVars, clientVars, promptVars,
                             modelsVars>>

\* C24: any two requests pass the throttle at least REQUEST_INTERVAL apart
C24_Spaced ==
    \A i \in 1..Len(passes) : i > 1 => passes[i] - passes[i - 1] >= REQUEST_INTERVAL

(***************************************************************************)
(* GET /api/models: the free models of the provider's list.  The provider  *)
(* gives prices as decimal strings; a price is absent, the number 0, the   *)
(* string 0, or positive.                                                  *)
(***************************************************************************)
MaxModels == 2

ModelIds == {"", "vendor/a:free", "vendor/b"}
Prices == {"absent", "number 0", "string 0", "string 0.000002"}
Entries == [id : ModelIds, prompt : Prices, completion : Prices]
ProviderLists == UNION {[1..n -> Entries] : n \in 0..MaxModels}

\* m.id.includes(':free')
IncludesFree(id) == id = "vendor/a:free"

\* (price || 0) === 0: a non-empty string is truthy and is not the number 0
IsNumberZero(price) == price \in {"absent", "number 0"}

\* the callback of the first filter
IsFree(m) ==
    \/ m.id # "" /\ IncludesFree(m.id)
    \/ IsNumberZero(m.prompt) /\ IsNumberZero(m.completion)

\* (data?.data || []).filter(...).map(...).filter(m => m.id)
FreeModels(list) == SelectSeq(SelectSeq(list, IsFree), LAMBDA m : m.id # "")

ModelsInit ==
    /\ provided \in ProviderLists
    /\ freeModels = <<>>
    /\ mpc = "ready"

\* the provider's list arrives and the free models are answered
AnswerModels ==
    /\ mpc = "ready"
    /\ freeModels' = FreeModels(provided)
    /\ mpc' = "done"
    /\ UNCHANGED provided

ModelsFrame == UNCHANGED <<genVars, extractVars, storeVars, clientVars, promptVars,
                           throttleVars>>

\* the price is 0 or absent
ZeroOrAbsent(price) == price \in {"absent", "number 0", "string 0"}

\* C28: the models answered are the provider's entries, in the provider's order,
\* that have a non-empty id and either an id containing ':free' or a prompt price
\* and a completion price that are both 0 or absent
C28_FreeModelsOnly ==
    mpc = "done" =>
       freeModels =
          SelectSeq(provided,
                    LAMBDA m : /\ m.id # ""
                               /\ \/ IncludesFree(m.id)
                                  \/ ZeroOrAbsent(m.prompt) /\ ZeroOrAbsent(m.completion))

PromptParked ==
    /\ timeframeWeeks = "undefined"
    /\ timeframeMonths = "undefined"
    /\ weeks = 0
    /\ wpc = "off"

ThrottleParked ==
    /\ clock = 0
    /\ lastRequestAt = 0
    /\ tpc = <<>>
    /\ wakeAt = <<>>
    /\ passes = <<>>

ModelsParked ==
    /\ provided = <<>>
    /\ freeModels = <<>>
    /\ mpc = "off"

OthersParked == PromptParked /\ ThrottleParked /\ ModelsParked

GenFrame == UNCHANGED <<extractVars, storeVars, clientVars, promptVars, throttleVars,
                        modelsVars>>

ExtractFrame == UNCHANGED <<genVars, storeVars, clientVars, promptVars, throttleVars,
                            modelsVars>>

StoreParked ==
    /\ build = "off"
    /\ file = MissingFile
    /\ now = 0
    /\ spc = <<>>
    /\ sreq = <<>>
    /\ roadmaps = <<>>
    /\ out = <<>>
    /\ sres = <<>>

Init == GenInit /\ ExtractParked /\ StoreParked /\ ClientParked /\ OthersParked

Next ==
    \/ \E m \in Methods, t \in Topics, mod \in RequestedModels : Request(m, t, mod) /\ GenFrame
    \/ \E ids \in SUBSET AvailableIds : FetchModels(ids) /\ GenFrame
    \/ Wait /\ GenFrame
    \/ CallRejects /\ GenFrame
    \/ \E c \in GenContents : CallOk(c) /\ GenFrame
    \/ CallOkUnreadable /\ GenFrame
    \/ \E st \in FailStatuses, text \in ErrBodies : CallFails(st, text) /\ GenFrame
    \/ \E st \in FailStatuses : CallFailsUnreadable(st) /\ GenFrame

Spec == Init /\ [][Next]_vars

\* the steps the handler takes once a request is in: each awaited upstream call,
\* model-list fetch and backoff timer completes
Completes ==
    \/ \E ids \in SUBSET AvailableIds : FetchModels(ids) /\ GenFrame
    \/ Wait /\ GenFrame
    \/ CallRejects /\ GenFrame
    \/ \E c \in GenContents : CallOk(c) /\ GenFrame
    \/ CallOkUnreadable /\ GenFrame
    \/ \E st \in FailStatuses, text \in ErrBodies : CallFails(st, text) /\ GenFrame
    \/ \E st \in FailStatuses : CallFailsUnreadable(st) /\ GenFrame

SpecLive == Init /\ [][Next]_vars /\ WF_vars(Completes)

InitExtract == ExtractInit /\ GenParked /\ StoreParked /\ ClientParked /\ OthersParked

NextExtract == Answer200 /\ ExtractFrame

SpecExtract == InitExtract /\ [][NextExtract]_vars

InitStore == StoreInit /\ GenParked /\ ExtractParked /\ ClientParked /\ OthersParked

StoreMethods == {"POST", "DELETE", "PUT"}
ListMethods == {"GET", "POST"}

\* the store serving one request at a time, each run in isolation
Serial == {"p1"}

NextStore ==
    \/ Tick /\ StoreFrame
    \/ \E p \in Serial, m \in StoreMethods, r \in Roadmaps, md \in Metadatas :
          StartSave(p, m, r, md) /\ StoreFrame
    \/ \E p \in Serial, rnd \in Suffixes : SaveLoad(p, rnd) /\ StoreFrame
    \/ \E p \in Serial : SaveWrite(p) /\ StoreFrame
    \/ \E p \in Serial : WriteFails(p) /\ StoreFrame
    \/ \E p \in Serial, m \in StoreMethods, id \in Ids \cup {NoId} :
          StartDelete(p, m, id) /\ StoreFrame
    \/ \E p \in Serial : DeleteLoad(p) /\ StoreFrame
    \/ \E p \in Serial : DeleteWrite(p) /\ StoreFrame
    \/ \E p \in Serial, id \in Ids \cup {NoId} : StartGet(p, id) /\ StoreFrame
    \/ \E p \in Serial : GetLoad(p) /\ StoreFrame
    \/ \E p \in Serial, m \in ListMethods : StartList(p, m) /\ StoreFrame
    \/ \E p \in Serial : ListLoad(p) /\ StoreFrame
    \/ \E p \in Serial : Finish(p) /\ StoreFrame

SpecStore == InitStore /\ [][NextStore]_vars

\* the same handlers started over a file that is absent or unreadable
InitAnyFile ==
    /\ StoreInit \/ StoreInitUnreadable
    /\ GenParked /\ ExtractParked /\ ClientParked /\ OthersParked

SpecAnyFile == InitAnyFile /\ [][NextStore]_vars

MaxOverlap == 2

\* the store serving two requests at once: their file operations interleave
NextOverlap ==
    \/ \E p \in Procs, md \in Metadatas : StartSave(p, "POST", "roadmap1", md) /\ StoreFrame
    \/ \E p \in Procs, rnd \in Suffixes :
          Len(Stored(file)) < MaxOverlap /\ SaveLoad(p, rnd) /\ StoreFrame
    \/ \E p \in Procs : SaveWrite(p) /\ StoreFrame
    \/ \E p \in Procs, id \in Ids : StartDelete(p, "DELETE", id) /\ StoreFrame
    \/ \E p \in Procs : DeleteLoad(p) /\ StoreFrame
    \/ \E p \in Procs : DeleteWrite(p) /\ StoreFrame
    \/ \E p \in Procs, id \in Ids : StartGet(p, id) /\ StoreFrame
    \/ \E p \in Procs : GetLoad(p) /\ StoreFrame
    \/ \E p \in Procs : Finish(p) /\ StoreFrame

SpecOverlap == InitStore /\ [][NextOverlap]_vars

\* every request handler of the server: a run serves generation requests or store
\* requests
InitHandlers == Init \/ InitStore

NextHandlers ==
    \/ \E m \in Methods, t \in Topics, mod \in RequestedModels : Request(m, t, mod) /\ GenFrame
    \/ \E ids \in SUBSET AvailableIds : FetchModels(ids) /\ GenFrame
    \/ Wait /\ GenFrame
    \/ CallRejects /\ GenFrame
    \/ \E c \in GenContents : CallOk(c) /\ GenFrame
    \/ CallOkUnreadable /\ GenFrame
    \/ \E st \in FailStatuses, text \in ErrBodies : CallFails(st, text) /\ GenFrame
    \/ \E st \in FailStatuses : CallFailsUnreadable(st) /\ GenFrame
    \/ build # "off" /\ Tick /\ StoreFrame
    \/ \E p \in Serial, m \in StoreMethods, r \in Roadmaps, md \in Metadatas :
          build # "off" /\ StartSave(p, m, r, md) /\ StoreFrame
    \/ \E p \in Serial, rnd \in Suffixes : build # "off" /\ SaveLoad(p, rnd) /\ StoreFrame
    \/ \E p \in Serial : build # "off" /\ SaveWrite(p) /\ StoreFrame
    \/ \E p \in Serial : build # "off" /\ WriteFails(p) /\ StoreFrame
    \/ \E p \in Serial, m \in StoreMethods, id \in Ids \cup {NoId} :
          build # "off" /\ StartDelete(p, m, id) /\ StoreFrame
    \/ \E p \in Serial : build # "off" /\ DeleteLoad(p) /\ StoreFrame
    \/ \E p \in Serial : build # "off" /\ DeleteWrite(p) /\ StoreFrame
    \/ \E p \in Serial, id \in Ids \cup {NoId} : build # "off" /\ StartGet(p, id) /\ StoreFrame
    \/ \E p \in Serial : build # "off" /\ GetLoad(p) /\ StoreFrame
    \/ \E p \in Serial, m \in ListMethods : build # "off" /\ StartList(p, m) /\ StoreFrame
    \/ \E p \in Serial : build # "off" /\ ListLoad(p) /\ StoreFrame
    \/ \E p \in Serial : build # "off" /\ Finish(p) /\ StoreFrame

SpecHandlers == InitHandlers /\ [][NextHandlers]_vars

InitPrompt ==
    /\ PromptInit /\ GenParked /\ ExtractParked /\ StoreParked /\ ClientParked
    /\ ThrottleParked /\ ModelsParked

NextPrompt == ComputeWeeks /\ PromptFrame

SpecPrompt == InitPrompt /\ [][NextPrompt]_vars

InitThrottle ==
    /\ ThrottleInit /\ GenParked /\ ExtractParked /\ StoreParked /\ ClientParked
    /\ PromptParked /\ ModelsParked

NextThrottle ==
    \/ \E p \in Procs : Arrive(p) /\ ThrottleFrame
    \/ \E p \in Procs : Wake(p) /\ ThrottleFrame
    \/ \E p \in Procs : Leave(p) /\ ThrottleFrame
    \/ Advance /\ ThrottleFrame

SpecThrottle == InitThrottle /\ [][NextThrottle]_vars

InitModels ==
    /\ ModelsInit /\ GenParked /\ ExtractParked /\ StoreParked /\ ClientParked
    /\ PromptParked /\ ThrottleParked

NextModels == AnswerModels /\ ModelsFrame

SpecModels == InitModels /\ [][NextModels]_vars

InitClient == ClientInit /\ GenParked /\ ExtractParked /\ StoreParked /\ OthersParked

NextClient ==
    \/ \E g \in Gens : handleSubmit(g) /\ ClientFrame
    \/ \E g \in Gens : retryGeneration(g) /\ ClientFrame
    \/ handleKeyboard /\ ClientFrame
    \/ Offline /\ ClientFrame
    \/ \E g \in Gens, r \in Results : ResponseOk(g, r) /\ ClientFrame
    \/ \E g \in Gens : SaveSettles(g) /\ ClientFrame
    \/ \E g \in Gens : ResponseNotOk(g) /\ ClientFrame
    \/ \E g \in Gens : FetchRejects(g) /\ ClientFrame
    \/ \E g \in Gens : FetchAborted(g) /\ ClientFrame

SpecClient == InitClient /\ [][NextClient]_vars

\* every request of the client settles, and so does every awaited save
Settles ==
    \/ \E g \in Gens, r \in Results : ResponseOk(g, r) /\ ClientFrame
    \/ \E g \in Gens : SaveSettles(g) /\ ClientFrame
    \/ \E g \in Gens : ResponseNotOk(g) /\ ClientFrame
    \/ \E g \in Gens : FetchRejects(g) /\ ClientFrame
    \/ \E g \in Gens : FetchAborted(g) /\ ClientFrame

SpecClientLive == InitClient /\ [][NextClient]_vars /\ WF_vars(Settles)

====
